---- MODULE Spec2Model ----
(***************************************************************************)
(* Event-driven kinetic simulator of src/simulation.cpp (class Simulation). *)
(*                                                                         *)
(* Numbers.  The program computes with doubles; the model computes with    *)
(* integers on the symmetry axis of the domain (y = 0, headings that are   *)
(* integer multiples of pi), where every quantity of the program is an     *)
(* integer number of ticks:                                                *)
(*   - a length is a number of ticks and one tick is the tolerance EPS;    *)
(*   - a heading k stands for the angle k*pi, so cos = (-1)^k and sin = 0; *)
(*   - the kernel's fractions t of max_path are carried as the length      *)
(*     t*max_path, and EPS on that scale is the same single tick.          *)
(* The random source yields the axis points of a lattice of step DrawStep  *)
(* and the two axis headings -pi and 0.                                    *)
(***************************************************************************)
EXTENDS Integers, Sequences, FiniteSets, TLC

\* ---------------------------------------------------------------- bounds
N == 3              \* num_particles of the runs of Spec
MaxCap == 2         \* largest gate capacity tried
MaxTime == 30       \* update is not called once time has reached MaxTime
DrawStep == 3       \* step of the lattice of random positions
MaxStrayTime == 1   \* a planned position goes astray only before this time
MaxWriteDt == 3     \* largest write_dt passed to update
MaxCallTime == 4    \* largest time tried in the calls of get_current_position
MaxCollisions == 3  \* the M_f of the batch driver: it stops after that many events
RatioDen == 2       \* left_ratio is a multiple of 1/RatioDen
AngleTicks == 12    \* reflected angles are multiples of pi/AngleTicks

\* ------------------------------------------------------- program constants
LEFT == 0
RIGHT == 1
EPS == 1
circle_radius == 5
nominal_circle_distance == 6
\* the bridge heights tried: one that start accepts and the smallest it refuses
BridgeHeights == {6, 2 * circle_radius}

Sides == {LEFT, RIGHT}

\* unsigned long wraps round at both ends; the model carries the counter in
\* the 31 bits of the checker's integers, the program in 64
ULONG_MAX == 2147483647

VARIABLES
    num_particles,
    phase,                          \* "constructed", "setup", "started", "failed", "hung"
    bridge_height,
    left_gate_capacity, right_gate_capacity,
    explosion_direction_is_random, gate_is_flat, distance_as_channel_length,
    dt,                             \* the write_dt the driver passes to update
    num_collisions,                 \* count of processed events the batch driver reads
    gate_capacities,
    time, in_left,
    x_pos, directions, impact_times,
    next_x_pos, next_directions, next_impact_times,
    gate_arrays, gate_contents,
    sorted_indices,
    measuring_times, total_left,
    reset_counter,
    last_written_time,
    results_file,                   \* the snapshots appended to results.dat
    ev                              \* what the last update did (history)

config == <<num_particles, bridge_height, left_gate_capacity, right_gate_capacity, explosion_direction_is_random,
            gate_is_flat, distance_as_channel_length, dt>>
vars == <<num_particles, phase, bridge_height, left_gate_capacity, right_gate_capacity, explosion_direction_is_random,
          gate_is_flat, distance_as_channel_length, dt, num_collisions, gate_capacities,
          time, in_left,
          x_pos, directions, impact_times, next_x_pos, next_directions,
          next_impact_times, gate_arrays, gate_contents, sorted_indices,
          measuring_times, total_left, reset_counter, last_written_time, results_file,
          ev>>

Particles == 0 .. (num_particles - 1)

\* ---------------------------------------------------------------- helpers
Abs(a) == IF a < 0 THEN -a ELSE a

\* sgn<double>: (0 < val) - (val < 0)
sgn(val) == (IF 0 < val THEN 1 ELSE 0) - (IF val < 0 THEN 1 ELSE 0)

\* sgn<std::vector<double>>: T(0) is the empty vector and < is lexicographic
sgn_vector(val) == (IF DOMAIN val /= {} THEN 1 ELSE 0) - 0

\* cos(k*pi)
Cos(k) == IF k % 2 = 0 THEN 1 ELSE -1

\* fmod(a, b), b > 0: the result has the sign of a
Fmod(a, b) == IF a >= 0 THEN a % b ELSE -((-a) % b)

\* std::sqrt on the perfect squares the geometry uses
Sqrt(a) == CHOOSE r \in 0 .. a : r * r <= a /\ (r + 1) * (r + 1) > a

\* vector of N copies of v (resize), as a function on the particle indices
Vec(v) == [p \in Particles |-> v]

Range(seq) == {seq[k] : k \in 1 .. Len(seq)}

\* erase(remove(begin, end, v), end) on the live part of a vector
EraseRemove(seq, v) == SelectSeq(seq, LAMBDA e : e /= v)

\* u++ and u-- on an unsigned long
Incremented(u) == IF u = ULONG_MAX THEN 0 ELSE u + 1
Decremented(u) == IF u = 0 THEN ULONG_MAX ELSE u - 1

\* ------------------------------------------------------------ geometry
\* couple_bridge: 2*sqrt(R^2 - h^2/4) - 2*R
discrepancy == 2 * Sqrt(circle_radius * circle_radius
                        - (bridge_height * bridge_height) \div 4) - 2 * circle_radius

bridge_length == IF distance_as_channel_length
                 THEN nominal_circle_distance
                 ELSE nominal_circle_distance - discrepancy

circle_distance == IF distance_as_channel_length
                   THEN nominal_circle_distance + discrepancy
                   ELSE nominal_circle_distance

left_center_x == -(circle_distance \div 2) - circle_radius
right_center_x == (circle_distance \div 2) + circle_radius
max_path == circle_distance + bridge_height + circle_radius * 4

box_x_radius == (circle_distance \div 2) + circle_radius * 2
box_y_radius == circle_radius

is_in_circle(x, y, side) ==
    IF side = LEFT
    THEN (x - left_center_x) * (x - left_center_x) + y * y < circle_radius * circle_radius
    ELSE (x - right_center_x) * (x - right_center_x) + y * y < circle_radius * circle_radius

is_in_bridge(x, y) == 2 * Abs(x) <= bridge_length /\ 2 * Abs(y) <= bridge_height

is_in_domain(x, y) ==
    IF is_in_bridge(x, y) THEN TRUE
    ELSE IF x < 0 THEN is_in_circle(x, y, LEFT) ELSE is_in_circle(x, y, RIGHT)

\* a gate test without the test of the side
is_in_gate_on_either_side(x, y, direction) ==
    IF gate_is_flat
    THEN 2 * Abs(x) <= bridge_length
    ELSE ~ is_in_circle(x, y, direction)

is_in_gate(x, y, direction) ==
    IF gate_is_flat
    THEN (direction * 2 - 1) * x >= 0 /\ 2 * Abs(x) <= bridge_length
    ELSE (direction * 2 - 1) * x >= 0 /\ ~ is_in_circle(x, y, direction)

\* ------------------------------------------------------ the random source
\* (u - 0.5) * box_x_radius * 2 on the lattice
DrawXs == {x \in (-box_x_radius) .. box_x_radius : (x + box_x_radius) % DrawStep = 0}
\* (u - 0.5) * 2 * PI on the axis
DrawDirs == {-1, 0}

\* ----------------------------------------------------- ray-casting kernel
\* The kernel works on a record s that holds the fields of the simulation an
\* update reads and writes; a result [t, normal] is the returned travel length
\* and the normal_angle output argument (left as it was when nothing is hit).

\* atan2(0, dx) for dx /= 0, in multiples of pi
Atan2Axis(dx) == IF dx < 0 THEN 1 ELSE 0

\* Rays off the axis have the direction (cx, cy) / DirDen with integer cx, cy
\* and cx*cx + cy*cy = DirDen*DirDen; normals of the rails are in multiples of
\* pi/2.
DirDen == 5

\* a rail taken for the whole line y = q_y, not the segment over the bridge
BridgeRail_unbounded(r, q_y, px, py, cx, cy, normal) ==
    LET ry == max_path * cy
        sx == bridge_length
        denom == 0 - ry * sx
        t_num == 0 - (q_y - py) * sx
        dist == (DirDen * t_num * max_path) \div denom
    IN  IF denom /= 0 /\ EPS < dist /\ dist < r.t
        THEN [t |-> dist - EPS, normal |-> normal]
        ELSE r

\* one rail of time_to_hit_bridge: q = (-bridge_length/2, q_y), s =
\* (bridge_length, 0), r = max_path * (cx, cy) / DirDen; t and u are the
\* quotients of the cross products by denom = r x s, t carried as the length
\* t*max_path; with denom = 0 the quotients are infinite or NaN and fail the test
BridgeRail(r, q_y, px, py, cx, cy, normal) ==
    LET rx == max_path * cx
        ry == max_path * cy
        sx == bridge_length
        denom == rx * 0 - ry * sx
        t_num == (-(bridge_length \div 2) - px) * 0 - (q_y - py) * sx
        u_num == (-(bridge_length \div 2) - px) * ry - (q_y - py) * rx
        dist == (DirDen * t_num * max_path) \div denom
    IN  IF /\ denom /= 0
           /\ EPS < dist /\ dist < r.t
           /\ IF denom > 0 THEN 0 <= u_num /\ u_num <= denom
                           ELSE denom <= u_num /\ u_num <= 0
        THEN [t |-> dist - EPS, normal |-> normal]
        ELSE r

\* time_to_hit_bridge for a particle at (px, py): first the bottom rail (normal
\* pi/2), then the top rail (normal -pi/2)
bridge_hit(px, py, cx, cy, normal_angle) ==
    BridgeRail(BridgeRail([t |-> max_path, normal |-> normal_angle],
                          -(bridge_height \div 2), px, py, cx, cy, 1),
               bridge_height \div 2, px, py, cx, cy, -1)

\* on the axis: py = 0, the ray (cos, 0) is parallel to both rails
time_to_hit_bridge(s, particle, normal_angle) ==
    bridge_hit(s.x_pos[particle], 0, DirDen * Cos(s.directions[particle]), 0, normal_angle)

\* the two roots of the quadratic, as lengths: D = b*b - 4*a*c > 0 on the axis
circle_intersections(s, particle, center_x) ==
    LET c == Cos(s.directions[particle])
        px == s.x_pos[particle]
    IN  [t1 |-> c * (center_x - px) - circle_radius,
         t2 |-> c * (center_x - px) + circle_radius]

\* one root of time_to_hit_circle: r is [min_t, normal_angle] so far, t the root
\* and x the impact point
CircleRoot(r, t, x, center_x) ==
    IF EPS < t /\ t < r.t /\ ~ is_in_bridge(x, 0)
    THEN [t |-> t - EPS, normal |-> Atan2Axis(center_x - x)]
    ELSE r

CircleRoots(s, particle, center_x, normal_angle, ts) ==
    CircleRoot(CircleRoot([t |-> max_path, normal |-> normal_angle],
                          ts.t1,
                          s.x_pos[particle] + ts.t1 * Cos(s.directions[particle]),
                          center_x),
               ts.t2,
               s.x_pos[particle] + ts.t2 * Cos(s.directions[particle]),
               center_x)

time_to_hit_circle(s, particle, center_x, normal_angle) ==
    CircleRoots(s, particle, center_x, normal_angle,
                circle_intersections(s, particle, center_x))

\* a reflection that adds the incoming angle instead of subtracting it
reflection_angle_adding(PI, angle_in, normal_angle) ==
    Fmod(2 * normal_angle + angle_in + PI, 2 * PI)

\* fmod(2*normal_angle - angle_in + PI, 2*PI), in the unit that makes pi = PI
reflection_angle(PI, angle_in, normal_angle) ==
    Fmod(2 * normal_angle - angle_in + PI, 2 * PI)

\* the reflection of the axis model, in multiples of pi
get_reflection_angle(angle_in, normal_angle) == reflection_angle(1, angle_in, normal_angle)

\* one root of the arc gate: kept when its impact point lies in the bridge
GateArcRoot(min_t, t, x) ==
    IF EPS < t /\ t < min_t /\ is_in_bridge(x, 0) THEN t ELSE min_t

GateArcRoots(s, particle, min_t, ts) ==
    GateArcRoot(GateArcRoot(min_t,
                            ts.t1,
                            s.x_pos[particle] + ts.t1 * Cos(s.directions[particle])),
                ts.t2,
                s.x_pos[particle] + ts.t2 * Cos(s.directions[particle]))

\* one pass of the loop over the two reservoirs of the arc gate
GateArcStep(s, particle, center_x, min_t) ==
    GateArcRoots(s, particle, min_t, circle_intersections(s, particle, center_x))

\* one gate line of the flat gate
GateLine(min_path, to_gate) ==
    IF to_gate > 0 /\ to_gate < min_path THEN to_gate ELSE min_path

time_to_hit_gate(s, particle) ==
    IF gate_is_flat
    THEN GateLine(GateLine(max_path,
                           (-(bridge_length \div 2) - s.x_pos[particle])
                               * Cos(s.directions[particle])),
                  ((bridge_length \div 2) - s.x_pos[particle])
                      * Cos(s.directions[particle]))
    ELSE GateArcStep(s, particle, right_center_x,
                     GateArcStep(s, particle, left_center_x, max_path))

\* u = 1/2 on the axis (0 <= u <= 1 holds), t = -px / (max_path*cos)
time_to_hit_middle(s, particle) ==
    LET px == s.x_pos[particle]
        c == Cos(s.directions[particle])
        t == (0 - px) * c
    IN  IF EPS < t /\ t < max_path THEN t + EPS ELSE max_path

\* ------------------------------------------------------------- planner
\* the accepted (x, y) of the rejection sampler: (0, 0) when it passes the test
\* (it never does: the origin is in the bridge), else an accepted draw
ResetXs(direction) ==
    LET ok(x) == is_in_circle(x, 0, direction) /\ ~ is_in_gate(x, 0, direction)
                 /\ ~ is_in_bridge(x, 0)
    IN  IF ok(0) THEN {0} ELSE {x \in DrawXs : ok(x)}

reset_particle(s, particle, direction) ==
    {[s EXCEPT !.x_pos[particle] = x, !.directions[particle] = d,
               !.ev.draws = Append(@, <<x, d>>)] :
        x \in ResetXs(direction), d \in DrawDirs}

\* The running minimum of compute_next_impact is a record e: t is next_time,
\* angle is next_angle and normal is the local the kernel writes normals to.
\* a reflecting candidate (bridge, reservoir)
Reflecting(e, hit, dir) ==
    IF hit.t < e.t
    THEN [t |-> hit.t, angle |-> get_reflection_angle(dir, hit.normal),
          normal |-> hit.normal]
    ELSE [e EXCEPT !.normal = hit.normal]

OnBridge(s, particle, e) ==
    Reflecting(e, time_to_hit_bridge(s, particle, e.normal), s.directions[particle])

OnCircle(s, particle, center_x, e) ==
    Reflecting(e, time_to_hit_circle(s, particle, center_x, e.normal),
               s.directions[particle])

\* a passing candidate that is taken without comparing it with the minimum
Passing_unconditional(e, to_line, dir) ==
    [e EXCEPT !.t = to_line + EPS, !.angle = dir]

\* a candidate the particle passes through (gate, mid-line)
Passing(e, to_line, dir) ==
    IF to_line < e.t THEN [e EXCEPT !.t = to_line + EPS, !.angle = dir] ELSE e

\* the minimum over the five candidates, in the order and with the biases of
\* the code
NextEvent(s, particle) ==
    Passing(
        Passing(
            OnCircle(s, particle, right_center_x,
                OnCircle(s, particle, left_center_x,
                    OnBridge(s, particle, [t |-> max_path, angle |-> 0, normal |-> 0]))),
            time_to_hit_gate(s, particle), s.directions[particle]),
        time_to_hit_middle(s, particle), s.directions[particle])

\* a tail that resets the particle into the reservoir of the other side
PlanOrReset_other_side(s, particle, e) ==
    IF e.t = max_path
    THEN UNION {{[s3 EXCEPT !.next_x_pos[particle] =
                        s3.x_pos[particle] + NextEvent(s3, particle).t
                                                 * Cos(s3.directions[particle]),
                            !.next_impact_times[particle] =
                                s3.time + NextEvent(s3, particle).t,
                            !.next_directions[particle] = NextEvent(s3, particle).angle]} :
                    s3 \in reset_particle([s EXCEPT !.reset_counter = @ + 1], particle,
                                          IF s.x_pos[particle] > 0 THEN LEFT ELSE RIGHT)}
    ELSE {[s EXCEPT !.next_x_pos[particle] =
                        s.x_pos[particle] + e.t * Cos(s.directions[particle]),
                    !.next_impact_times[particle] = s.time + e.t,
                    !.next_directions[particle] = e.angle]}

\* the set of states compute_next_impact can leave (one state unless the
\* particle is reset, then one per outcome of the sampler)
RECURSIVE compute_next_impact(_, _)
\* the tail of compute_next_impact, e being (next_time, next_angle)
PlanOrReset(s, particle, e) ==
    IF e.t = max_path
    THEN UNION {compute_next_impact(s2, particle) :
                    s2 \in reset_particle([s EXCEPT !.reset_counter = @ + 1], particle,
                                          IF s.x_pos[particle] > 0 THEN RIGHT ELSE LEFT)}
    ELSE {[s EXCEPT !.next_x_pos[particle] =
                        s.x_pos[particle] + e.t * Cos(s.directions[particle]),
                    !.next_impact_times[particle] = s.time + e.t,
                    !.next_directions[particle] = e.angle]}

compute_next_impact(s, particle) == PlanOrReset(s, particle, NextEvent(s, particle))

\* an interpolation that starts from the planned event instead of the last one
get_current_position_from_next(s, particle) ==
    LET nx == s.next_x_pos[particle]
        it == s.impact_times[particle]
        nit == s.next_impact_times[particle]
    IN  IF it = nit THEN nx
        ELSE IF nit > it
             THEN nx + ((s.x_pos[particle] - nx) * (s.time - it)) \div (nit - it)
             ELSE nx + ((s.x_pos[particle] - nx) * (it - s.time)) \div (it - nit)

\* x of the position interpolated at the current time
get_current_position(s, particle) ==
    LET px == s.x_pos[particle]
        it == s.impact_times[particle]
        nit == s.next_impact_times[particle]
    IN  IF it = nit THEN px
        ELSE IF nit > it
             THEN px + ((s.next_x_pos[particle] - px) * (s.time - it)) \div (nit - it)
             ELSE px + ((s.next_x_pos[particle] - px) * (it - s.time)) \div (it - nit)

\* the sign of cos(a), a in the unit that makes pi = PI
CosSign(PI, a) ==
    LET m == a % (2 * PI)
    IN  IF 2 * m < PI \/ 2 * m > 3 * PI THEN 1
        ELSE IF 2 * m = PI \/ 2 * m = 3 * PI THEN 0
        ELSE -1

\* (u - 0.5) * PI on the lattice of the unit: the headings in [-pi/2, pi/2)
RetractionDraws(PI) == {u \in (-PI) .. PI : -PI <= 2 * u /\ 2 * u < PI}

\* a retraction that turns the particle round whatever its heading
retraction_angle_always_turning(PI, x, direction, u) ==
    IF explosion_direction_is_random
    THEN u + (PI * (1 - sgn(sgn(x)))) \div 2
    ELSE direction + PI

\* get_retraction_angle for a particle at x with the given heading, u being
\* the draw (u - 0.5) * PI, in the unit that makes pi = PI
retraction_angle(PI, x, direction, u) ==
    IF explosion_direction_is_random
    THEN u + (PI * (1 - sgn(sgn(x)))) \div 2
    ELSE IF CosSign(PI, direction) * x < 0
         THEN direction + PI
         ELSE direction

\* the retraction of the axis model, in multiples of pi: the only axis heading
\* of the drawn range is its middle
get_retraction_angle(s, particle) ==
    retraction_angle(1, s.x_pos[particle], s.directions[particle], 0)

\* a test that takes every particle for one that heads for the mid-line
is_going_in_whatever_heading(s, particle) == TRUE

is_going_in(s, particle) == s.x_pos[particle] * Cos(s.directions[particle]) <= 0

\* ------------------------------------------------------------ scheduler
\* std::list::sort on iota(0 .. N-1) is stable: insert each index, in increasing
\* order, after the elements it is not smaller than
RECURSIVE StableInsert(_, _, _)
StableInsert(lst, particle, nit) ==
    IF lst = << >> THEN <<particle>>
    ELSE IF nit[particle] < nit[Head(lst)] THEN <<particle>> \o lst
         ELSE <<Head(lst)>> \o StableInsert(Tail(lst), particle, nit)

RECURSIVE SortFrom(_, _, _)
SortFrom(lst, particle, nit) ==
    IF particle >= num_particles THEN lst
    ELSE SortFrom(StableInsert(lst, particle, nit), particle + 1, nit)

sort_indices(s) == [s EXCEPT !.sorted_indices = SortFrom(<< >>, 0, s.next_impact_times)]

\* std::list is a ring of the Len(lst) elements and the end() node: an iterator
\* advanced k steps from begin() stands on node k modulo Len(lst) + 1, node
\* Len(lst) being end()
Node(lst, k) == k % (Len(lst) + 1)

InsertBefore(lst, node, particle) ==
    SubSeq(lst, 1, node) \o <<particle>> \o SubSeq(lst, node + 1, Len(lst))

\* the positions the binary search can end on; reading *it on end() is
\* undefined, the comparison then goes either way
RECURSIVE SearchSlots(_, _, _, _)
SearchSlots(s, particle, l, r) ==
    IF l < r
    THEN LET m == (l + r) \div 2
             node == Node(s.sorted_indices, m)
             less == IF node < Len(s.sorted_indices)
                     THEN {s.next_impact_times[s.sorted_indices[node + 1]]
                              < s.next_impact_times[particle]}
                     ELSE BOOLEAN
         IN  UNION {IF b THEN SearchSlots(s, particle, m + 1, r)
                         ELSE SearchSlots(s, particle, l, m) : b \in less}
    ELSE {l}

insert_index(s, particle) ==
    {[s EXCEPT !.sorted_indices = InsertBefore(@, Node(@, l), particle)] :
        l \in SearchSlots(s, particle, 0, num_particles - 1)}

reindex_particle(s, particle, was_minimum) ==
    IF was_minimum
    THEN insert_index([s EXCEPT !.sorted_indices = Tail(@)], particle)
    ELSE insert_index([s EXCEPT !.sorted_indices = EraseRemove(@, particle)], particle)

\* -------------------------------------------------------- gate protocol
\* a loop that goes on while the planned position is inside the domain: the
\* second pass repeats the first
RetractTrigger_while_inside(s, exp_particle) ==
    LET s1 == [s EXCEPT !.directions[exp_particle] = get_retraction_angle(s, exp_particle)]
    IN  {IF is_in_domain(s2.next_x_pos[exp_particle], 0) THEN [s2 EXCEPT !.hung = TRUE]
         ELSE s2 : s2 \in compute_next_impact(s1, exp_particle)}

\* do { retract; plan } while (planned position outside the domain); a pass
\* that changes nothing and still fails the test repeats for ever
RECURSIVE RetractTrigger(_, _)
RetractTrigger(s, exp_particle) ==
    LET s1 == [s EXCEPT !.directions[exp_particle] = get_retraction_angle(s, exp_particle)]
    IN  UNION {IF is_in_domain(s2.next_x_pos[exp_particle], 0) THEN {s2}
               ELSE IF s2 = s THEN {[s2 EXCEPT !.hung = TRUE]}
               ELSE RetractTrigger(s2, exp_particle) :
                   s2 \in compute_next_impact(s1, exp_particle)}

\* the range-for over gate_contents[direction]: begin and end are taken once,
\* so the loop walks the Len(buf) slots of the storage as it was when the loop
\* began; erasing shifts the live elements down and leaves the slots behind
\* the new end as they were
RECURSIVE ExplodeResidents(_, _, _, _)
\* the body of the loop for the resident in slot k, (x, 0) its current
\* position and live1 the live elements after the erase branch
Resident(s, direction, buf, k, x, live1) ==
    UNION {UNION {ExplodeResidents(s5, direction,
                                   live1 \o SubSeq(buf, Len(live1) + 1, Len(buf)),
                                   k + 1) :
                      s5 \in reindex_particle(s4, buf[k], FALSE)} :
               s4 \in compute_next_impact(
                          [s EXCEPT !.gate_contents[direction] = live1,
                                    !.ev.seen = Append(@, buf[k]),
                                    !.x_pos[buf[k]] = x,
                                    !.directions[buf[k]] =
                                        get_retraction_angle(
                                            [s EXCEPT !.x_pos[buf[k]] = x], buf[k]),
                                    !.impact_times[buf[k]] = s.time],
                          buf[k])}

Located(s, direction, buf, k, x) ==
    Resident(s, direction, buf, k, x,
             IF is_in_domain(x, 0) /\ ~ is_in_gate(x, 0, direction)
             THEN EraseRemove(s.gate_contents[direction], buf[k])
             ELSE s.gate_contents[direction])

ExplodeResidents(s, direction, buf, k) ==
    IF k > Len(buf) THEN {s}
    ELSE Located(s, direction, buf, k, get_current_position(s, buf[k]))

\* explosion that lets the trigger into the gate once the residents are done
explode_gate_admits_trigger(s, exp_particle, direction) ==
    UNION {IF s1.hung THEN {s1}
           ELSE {[s2 EXCEPT !.gate_contents[direction] = Append(@, exp_particle),
                            !.gate_arrays[direction][exp_particle] = 1] :
                     s2 \in ExplodeResidents(s1, direction, s1.gate_contents[direction], 1)} :
               s1 \in RetractTrigger([s EXCEPT !.ev.exploded[direction] = TRUE,
                                               !.ev.trigger[direction] = exp_particle],
                                     exp_particle)}

\* explosion that also empties the gate of the other side
explode_gate_clearing_other_side(s, exp_particle, direction) ==
    UNION {IF s1.hung THEN {s1}
           ELSE {[s2 EXCEPT !.gate_contents[1 - direction] = << >>] :
                     s2 \in ExplodeResidents(s1, direction, s1.gate_contents[direction], 1)} :
               s1 \in RetractTrigger([s EXCEPT !.ev.exploded[direction] = TRUE,
                                               !.ev.trigger[direction] = exp_particle],
                                     exp_particle)}

explode_gate(s, exp_particle, direction) ==
    UNION {IF s1.hung THEN {s1}
           ELSE ExplodeResidents(s1, direction, s1.gate_contents[direction], 1) :
               s1 \in RetractTrigger([s EXCEPT !.ev.exploded[direction] = TRUE,
                                               !.ev.trigger[direction] = exp_particle],
                                     exp_particle)}

\* admission that puts the newcomer at the front of the gate
check_gate_admission_prepending(s, particle, direction) ==
    IF s.gate_arrays[direction][particle] = 0
    THEN IF Len(s.gate_contents[direction]) > gate_capacities[direction] - 1
         THEN explode_gate(s, particle, direction)
         ELSE {[s EXCEPT !.gate_contents[direction] = <<particle>> \o @,
                         !.gate_arrays[direction][particle] = 1]}
    ELSE {s}

\* admission that compares the size with the capacity itself
check_gate_admission_off_by_one(s, particle, direction) ==
    IF s.gate_arrays[direction][particle] = 0
    THEN IF Len(s.gate_contents[direction]) > gate_capacities[direction]
         THEN explode_gate(s, particle, direction)
         ELSE {[s EXCEPT !.gate_contents[direction] = Append(@, particle),
                         !.gate_arrays[direction][particle] = 1]}
    ELSE {s}

\* admission that does not look at the membership flag
check_gate_admission_unflagged(s, particle, direction) ==
    IF Len(s.gate_contents[direction]) > gate_capacities[direction] - 1
    THEN explode_gate(s, particle, direction)
    ELSE {[s EXCEPT !.gate_contents[direction] = Append(@, particle),
                    !.gate_arrays[direction][particle] = 1]}

check_gate_admission(s, particle, direction) ==
    IF s.gate_arrays[direction][particle] = 0
    THEN IF Len(s.gate_contents[direction]) > gate_capacities[direction] - 1
         THEN explode_gate(s, particle, direction)
         ELSE {[s EXCEPT !.gate_contents[direction] = Append(@, particle),
                         !.gate_arrays[direction][particle] = 1]}
    ELSE {s}

check_gate_departure(s, particle, direction) ==
    IF s.gate_arrays[direction][particle] = 1
    THEN {[s EXCEPT !.gate_contents[direction] = EraseRemove(@, particle),
                    !.gate_arrays[direction][particle] = 0]}
    ELSE {s}

\* measurement that is skipped when the time has not moved
measure_new_times_only(s) ==
    IF s.measuring_times /= << >> /\ s.measuring_times[Len(s.measuring_times)] = s.time
    THEN s
    ELSE [s EXCEPT !.measuring_times = Append(@, s.time),
                   !.total_left = Append(@, s.in_left)]

measure(s) == [s EXCEPT !.measuring_times = Append(@, s.time),
                        !.total_left = Append(@, s.in_left)]

\* the x that write_positions_to_file writes for a particle at the sample
\* time: the quotient is taken without a test for equal event times, and with
\* equal times it is not a number
SnapshotX(s, particle, sample_time) ==
    LET px == s.x_pos[particle]
        it == s.impact_times[particle]
        nit == s.next_impact_times[particle]
    IN  IF it = nit THEN "nan"
        ELSE IF nit > it
             THEN px + ((s.next_x_pos[particle] - px) * (sample_time - it)) \div (nit - it)
             ELSE px + ((s.next_x_pos[particle] - px) * (it - sample_time)) \div (it - nit)

\* one snapshot appended to results.dat: the time line, the x row and the
\* direction row; a snapshot at time 0 truncates the file first
write_positions_to_file(s, sample_time) ==
    [s EXCEPT !.results_file =
         Append(IF sample_time = 0 THEN << >> ELSE @,
                [time |-> sample_time,
                 x |-> [p \in Particles |-> SnapshotX(s, p, sample_time)],
                 directions |-> s.directions])]

\* the loop of update that writes the time slices before the event of the
\* front particle is committed
RECURSIVE write_time_slices(_, _)
write_time_slices(s, write_dt) ==
    IF write_dt > 0
          /\ s.next_impact_times[Head(s.sorted_indices)] > s.last_written_time + write_dt
    THEN write_time_slices(
             [write_positions_to_file(s, s.last_written_time + write_dt)
                  EXCEPT !.last_written_time = @ + write_dt],
             write_dt)
    ELSE s

\* --------------------------------------------------------------- stepper
NoEvent == [particle |-> -1,
            branch |-> [d \in Sides |-> "none"],
            flag_before |-> [d \in Sides |-> 0],
            member_before |-> [d \in Sides |-> FALSE],
            size_before |-> [d \in Sides |-> 0],
            exploded |-> [d \in Sides |-> FALSE],
            trigger |-> [d \in Sides |-> -1],
            seen |-> << >>,
            repaired |-> FALSE,
            left_ratio |-> 0,
            draws |-> << >>,
            reflection |-> << >>,
            retraction |-> << >>,
            bridge |-> << >>,
            position |-> << >>,
            plan |-> << >>]

\* the fields of the simulation, as the record the operators work on
Fields == [time |-> time, in_left |-> in_left,
           x_pos |-> x_pos, directions |-> directions, impact_times |-> impact_times,
           next_x_pos |-> next_x_pos, next_directions |-> next_directions,
           next_impact_times |-> next_impact_times,
           gate_arrays |-> gate_arrays, gate_contents |-> gate_contents,
           sorted_indices |-> sorted_indices,
           measuring_times |-> measuring_times, total_left |-> total_left,
           reset_counter |-> reset_counter,
           last_written_time |-> last_written_time, results_file |-> results_file,
           hung |-> FALSE, ev |-> NoEvent]

Store(s) ==
    /\ time' = s.time
    /\ in_left' = s.in_left
    /\ x_pos' = s.x_pos
    /\ directions' = s.directions
    /\ impact_times' = s.impact_times
    /\ next_x_pos' = s.next_x_pos
    /\ next_directions' = s.next_directions
    /\ next_impact_times' = s.next_impact_times
    /\ gate_arrays' = s.gate_arrays
    /\ gate_contents' = s.gate_contents
    /\ sorted_indices' = s.sorted_indices
    /\ measuring_times' = s.measuring_times
    /\ total_left' = s.total_left
    /\ reset_counter' = s.reset_counter
    /\ last_written_time' = s.last_written_time
    /\ results_file' = s.results_file
    /\ ev' = s.ev

\* one pass of the loop over direction in update
GateCheck(s, particle, direction) ==
    LET going == is_in_gate(s.x_pos[particle], 0, direction) /\ is_going_in(s, particle)
        s1 == [s EXCEPT
                 !.ev.branch[direction] = IF going THEN "admission" ELSE "departure",
                 !.ev.flag_before[direction] = s.gate_arrays[direction][particle],
                 !.ev.member_before[direction] =
                     particle \in Range(s.gate_contents[direction]),
                 !.ev.size_before[direction] = Len(s.gate_contents[direction])]
    IN  IF s.hung THEN {s}
        ELSE IF going THEN check_gate_admission(s1, particle, direction)
             ELSE check_gate_departure(s1, particle, direction)

\* update(write_dt) after its time slices are written: the states it can leave
update(s0) ==
    LET particle == Head(s0.sorted_indices)
        next_impact == s0.next_impact_times[particle]
        stray == ~ is_in_domain(s0.next_x_pos[particle], 0)
        s1 == IF stray
              THEN [s0 EXCEPT !.next_x_pos[particle] =
                                  sgn_vector(s0.next_x_pos)
                                      * ((circle_distance \div 2) + circle_radius),
                              !.ev.repaired = TRUE]
              ELSE s0
        px == s1.x_pos[particle]
        nx == s1.next_x_pos[particle]
        s2 == IF px > 0 /\ nx < 0 THEN [s1 EXCEPT !.in_left = Incremented(@)]
              ELSE IF px < 0 /\ nx > 0 THEN [s1 EXCEPT !.in_left = Decremented(@)]
              ELSE s1
        s3 == [s2 EXCEPT !.x_pos[particle] = nx,
                         !.directions[particle] = s2.next_directions[particle],
                         !.impact_times[particle] = next_impact,
                         !.time = next_impact,
                         !.ev.particle = particle]
        afterGates == UNION {GateCheck(s4, particle, RIGHT) :
                                 s4 \in GateCheck(s3, particle, LEFT)}
    IN  UNION {IF s5.hung THEN {s5}
               ELSE UNION {{measure(s7) : s7 \in reindex_particle(s6, particle, TRUE)} :
                               s6 \in compute_next_impact(s5, particle)} :
                   s5 \in afterGates}

\* ---------------------------------------------------------------- actions
\* the fields as the constructor and the member initialisers leave them
Constructed ==
    /\ phase = "constructed"
    /\ gate_capacities = << >>
    /\ time = 0
    /\ in_left = 0
    /\ x_pos = << >>
    /\ directions = << >>
    /\ impact_times = << >>
    /\ next_x_pos = << >>
    /\ next_directions = << >>
    /\ next_impact_times = << >>
    /\ gate_arrays = << >>
    /\ gate_contents = << >>
    /\ sorted_indices = << >>
    /\ measuring_times = << >>
    /\ total_left = << >>
    /\ reset_counter = 0
    /\ num_collisions = 0
    /\ last_written_time = 0
    /\ results_file = << >>
    /\ ev = NoEvent

Init ==
    /\ num_particles = N
    /\ bridge_height \in BridgeHeights
    /\ left_gate_capacity \in 0 .. MaxCap
    /\ right_gate_capacity \in 0 .. MaxCap
    /\ explosion_direction_is_random \in BOOLEAN
    /\ gate_is_flat \in BOOLEAN
    /\ distance_as_channel_length \in BOOLEAN
    /\ dt = 0
    /\ Constructed

Setup ==
    /\ phase = "constructed"
    /\ phase' = "setup"
    /\ next_impact_times' = Vec(0)
    /\ sorted_indices' = [k \in 1 .. num_particles |-> 0]
    /\ impact_times' = Vec(0)
    /\ x_pos' = Vec(0)
    /\ next_x_pos' = Vec(0)
    /\ directions' = Vec(0)
    /\ next_directions' = Vec(0)
    /\ gate_arrays' = [d \in Sides |-> Vec(0)]
    /\ gate_contents' = [d \in Sides |-> << >>]
    /\ gate_capacities' = [d \in Sides |-> IF d = LEFT THEN left_gate_capacity
                                                       ELSE right_gate_capacity]
    /\ UNCHANGED <<config, num_collisions, time, in_left, measuring_times, total_left, reset_counter,
                   last_written_time, results_file, ev>>

\* the two loops of start over the particles
RECURSIVE StartParticles(_, _, _)
StartParticles(s, particle, num_left_particles) ==
    IF particle >= num_particles THEN {s}
    ELSE LET direction == IF particle < num_left_particles THEN LEFT ELSE RIGHT
         IN  UNION {UNION {StartParticles(
                               IF direction = LEFT THEN [s2 EXCEPT !.in_left = @ + 1]
                                                   ELSE s2,
                               particle + 1, num_left_particles) :
                               s2 \in compute_next_impact(s1, particle)} :
                        s1 \in reset_particle(s, particle, direction)}

\* start that refuses a bridge only when it is higher than the reservoirs
Start_height_strict(ratio) ==
    /\ phase = "setup"
    /\ LET s0 == [Fields EXCEPT !.time = 0, !.last_written_time = 0, !.in_left = 0,
                               !.ev.left_ratio = ratio]
           bad == \/ bridge_height > 2 * box_y_radius
                  \/ ratio * num_particles < 0
                  \/ ratio * num_particles > num_particles * RatioDen
                  \/ distance_as_channel_length /\ ~ gate_is_flat
           num_left_particles == (ratio * num_particles) \div RatioDen
       IN  IF bad
           THEN /\ phase' = "failed"
                /\ Store(s0)
           ELSE /\ phase' = "started"
                /\ \E s \in StartParticles(s0, 0, num_left_particles) :
                       Store(measure(sort_indices(s)))
    /\ UNCHANGED <<config, num_collisions, gate_capacities>>

\* start that rounds the number of left particles up
Start_rounding_up(ratio) ==
    /\ phase = "setup"
    /\ LET s0 == [Fields EXCEPT !.time = 0, !.last_written_time = 0, !.in_left = 0,
                               !.ev.left_ratio = ratio]
           bad == \/ bridge_height >= 2 * box_y_radius
                  \/ ratio * num_particles < 0
                  \/ ratio * num_particles > num_particles * RatioDen
                  \/ distance_as_channel_length /\ ~ gate_is_flat
           num_left_particles == (ratio * num_particles + RatioDen - 1) \div RatioDen
       IN  IF bad
           THEN /\ phase' = "failed"
                /\ Store(s0)
           ELSE /\ phase' = "started"
                /\ \E s \in StartParticles(s0, 0, num_left_particles) :
                       Store(measure(sort_indices(s)))
    /\ UNCHANGED <<config, num_collisions, gate_capacities>>

\* start(left_ratio), left_ratio = ratio / RatioDen
Start(ratio) ==
    /\ phase = "setup"
    /\ LET s0 == [Fields EXCEPT !.time = 0, !.last_written_time = 0, !.in_left = 0,
                               !.ev.left_ratio = ratio]
           bad == \/ bridge_height >= 2 * box_y_radius
                  \/ ratio * num_particles < 0
                  \/ ratio * num_particles > num_particles * RatioDen
                  \/ distance_as_channel_length /\ ~ gate_is_flat
           num_left_particles == (ratio * num_particles) \div RatioDen
       IN  IF bad
           THEN /\ phase' = "failed"
                /\ Store(s0)
           ELSE /\ phase' = "started"
                /\ \E s \in StartParticles(s0, 0, num_left_particles) :
                       Store(measure(sort_indices(s)))
    /\ UNCHANGED <<config, num_collisions, gate_capacities>>

Update ==
    /\ phase = "started"
    /\ time < MaxTime
    /\ \E s \in update(write_time_slices(Fields, dt)) :
          /\ Store(s)
          /\ phase' = IF s.hung THEN "hung" ELSE "started"
    /\ UNCHANGED <<config, num_collisions, gate_capacities>>

Next ==
    \/ Setup
    \/ \E ratio \in (-1) .. (RatioDen + 1) : Start(ratio)
    \/ Update

Spec == Init /\ [][Next]_vars

\* Runs that write snapshots, in one configuration: the left gate closed, the
\* right gate of capacity 1, arc gates, explosions that reverse.
SliceInit ==
    /\ num_particles = N
    /\ bridge_height = 6
    /\ left_gate_capacity = 0
    /\ right_gate_capacity = 1
    /\ explosion_direction_is_random = FALSE
    /\ gate_is_flat = FALSE
    /\ distance_as_channel_length = FALSE
    /\ dt \in 0 .. MaxWriteDt
    /\ Constructed

SliceSpec == SliceInit /\ [][Next]_vars

\* The batch driver get_mass_spread: the simulation is constructed with the
\* same threshold for both gates, flat gates and the distance taken as the
\* channel length; start is called in a try block whose handler for
\* invalid_argument only prints, and the two loops that follow call update(0)
\* while num_collisions < M_f.  A domain_error is not handled and ends the run.
CountEvent(n) == n + 1

DriverUpdate ==
    /\ \/ phase = "started"
       \/ phase = "failed" /\ bridge_height >= 2 * box_y_radius
    /\ num_collisions < MaxCollisions
    /\ time < MaxTime
    /\ \E s \in update(write_time_slices(Fields, 0)) :
          /\ Store(s)
          /\ phase' = IF s.hung THEN "hung" ELSE phase
    /\ num_collisions' = CountEvent(num_collisions)
    /\ UNCHANGED <<config, gate_capacities>>

DriverNext ==
    \/ Setup
    \/ \E ratio \in (-1) .. (RatioDen + 1) : Start(ratio)
    \/ DriverUpdate

DriverInit ==
    /\ num_particles = N
    /\ bridge_height \in BridgeHeights
    /\ left_gate_capacity \in 0 .. MaxCap
    /\ right_gate_capacity = left_gate_capacity
    /\ explosion_direction_is_random = FALSE
    /\ gate_is_flat = TRUE
    /\ distance_as_channel_length = TRUE
    /\ dt = 0
    /\ Constructed

DriverSpec == DriverInit /\ [][DriverNext]_vars

\* Stray plans.  Off the axis a planned position can lie outside the domain
\* when update commits it (update tests for it and logs "Stray particle"); the
\* planner never produces one on the axis, so here it is written to the public
\* vector next_x_pos between two updates: the planned position of the next
\* particle is moved onto the far wall of a reservoir, which is_in_domain
\* excludes.
StrayXs == {-box_x_radius, box_x_radius}

Stray ==
    /\ phase = "started"
    /\ time < MaxStrayTime
    /\ is_in_domain(next_x_pos[Head(sorted_indices)], 0)
    /\ \E x \in StrayXs :
           next_x_pos' = [next_x_pos EXCEPT ![Head(sorted_indices)] = x]
    /\ UNCHANGED <<phase, config, num_collisions, gate_capacities, time, in_left, x_pos, directions,
                   impact_times, next_directions, next_impact_times, gate_arrays,
                   gate_contents, sorted_indices, measuring_times, total_left,
                   reset_counter, last_written_time, results_file, ev>>

StrayNext == Next \/ Stray

StraySpec == Init /\ [][StrayNext]_vars

\* One more particle than Spec, in one configuration: the left gate closed, the
\* right gate at the largest capacity, arc gates, explosions that reverse.
CrowdInit ==
    /\ num_particles = N + 1
    /\ bridge_height \in BridgeHeights
    /\ left_gate_capacity = 0
    /\ right_gate_capacity = MaxCap
    /\ explosion_direction_is_random = FALSE
    /\ gate_is_flat = FALSE
    /\ distance_as_channel_length = FALSE
    /\ dt = 0
    /\ Constructed

CrowdSpec == CrowdInit /\ [][Next]_vars

\* calls of the public get_reflection_angle on a constructed simulation: ev
\* records <<angle_in, normal_angle, reflected>> and then the angle reflected back
Angles == (-2 * AngleTicks) .. (2 * AngleTicks)

ReflectOnce ==
    /\ phase = "constructed"
    /\ ev.reflection = << >>
    /\ \E angle_in \in Angles, normal_angle \in Angles :
           ev' = [ev EXCEPT !.reflection =
                      <<angle_in, normal_angle,
                        reflection_angle(AngleTicks, angle_in, normal_angle)>>]
    /\ UNCHANGED <<phase, config, num_collisions, gate_capacities, time, in_left, x_pos, directions,
                   impact_times, next_x_pos, next_directions, next_impact_times,
                   gate_arrays, gate_contents, sorted_indices, measuring_times,
                   total_left, reset_counter, last_written_time, results_file>>

ReflectBack ==
    /\ phase = "constructed"
    /\ Len(ev.reflection) = 3
    /\ ev' = [ev EXCEPT !.reflection =
                  Append(@, reflection_angle(AngleTicks, @[3], @[2]))]
    /\ UNCHANGED <<phase, config, num_collisions, gate_capacities, time, in_left, x_pos, directions,
                   impact_times, next_x_pos, next_directions, next_impact_times,
                   gate_arrays, gate_contents, sorted_indices, measuring_times,
                   total_left, reset_counter, last_written_time, results_file>>

ReflectNext == ReflectOnce \/ ReflectBack

ReflectInit ==
    /\ num_particles = N
    /\ bridge_height \in BridgeHeights
    /\ left_gate_capacity = MaxCap
    /\ right_gate_capacity = MaxCap
    /\ explosion_direction_is_random = FALSE
    /\ gate_is_flat = FALSE
    /\ distance_as_channel_length = FALSE
    /\ dt = 0
    /\ Constructed

ReflectSpec == ReflectInit /\ [][ReflectNext]_vars

\* calls of get_retraction_angle for a particle at x with a heading: ev records
\* <<x, heading, retracted>> and then the retraction of the retracted heading
RetractXs == {-box_x_radius, -1, 0, 1, box_x_radius}

RetractOnce ==
    /\ phase = "constructed"
    /\ ev.retraction = << >>
    /\ \E x \in RetractXs, direction \in Angles, u \in RetractionDraws(AngleTicks) :
           ev' = [ev EXCEPT !.retraction =
                      <<x, direction, retraction_angle(AngleTicks, x, direction, u)>>]
    /\ UNCHANGED <<phase, config, num_collisions, gate_capacities, time, in_left, x_pos, directions,
                   impact_times, next_x_pos, next_directions, next_impact_times,
                   gate_arrays, gate_contents, sorted_indices, measuring_times,
                   total_left, reset_counter, last_written_time, results_file>>

RetractAgain ==
    /\ phase = "constructed"
    /\ Len(ev.retraction) = 3
    /\ \E u \in RetractionDraws(AngleTicks) :
           ev' = [ev EXCEPT !.retraction =
                      Append(@, retraction_angle(AngleTicks, @[1], @[3], u))]
    /\ UNCHANGED <<phase, config, num_collisions, gate_capacities, time, in_left, x_pos, directions,
                   impact_times, next_x_pos, next_directions, next_impact_times,
                   gate_arrays, gate_contents, sorted_indices, measuring_times,
                   total_left, reset_counter, last_written_time, results_file>>

RetractNext == RetractOnce \/ RetractAgain

RetractInit ==
    /\ num_particles = N
    /\ bridge_height \in BridgeHeights
    /\ left_gate_capacity = MaxCap
    /\ right_gate_capacity = MaxCap
    /\ explosion_direction_is_random \in BOOLEAN
    /\ gate_is_flat = FALSE
    /\ distance_as_channel_length = FALSE
    /\ dt = 0
    /\ Constructed

RetractSpec == RetractInit /\ [][RetractNext]_vars

\* One particle alone, both gates of capacity 1.
SoloInit ==
    /\ num_particles = 1
    /\ bridge_height \in BridgeHeights
    /\ left_gate_capacity = 1
    /\ right_gate_capacity = 1
    /\ explosion_direction_is_random \in BOOLEAN
    /\ gate_is_flat \in BOOLEAN
    /\ distance_as_channel_length \in BOOLEAN
    /\ dt = 0
    /\ Constructed

SoloSpec == SoloInit /\ [][Next]_vars

\* calls of time_to_hit_bridge for a particle placed at (px, py) with a heading
\* along or across the bridge or on the 3-4-5 slopes: ev records
\* <<px, py, cx, cy, result>>, the normal passed in being BridgeNoNormal
BridgeXs == (-box_x_radius) .. box_x_radius
BridgeYs == {y \in (-bridge_height) .. bridge_height : y % 3 = 0}
BridgeDirs == {<<5, 0>>, <<-5, 0>>, <<0, 5>>, <<0, -5>>,
               <<4, 3>>, <<4, -3>>, <<-4, 3>>, <<-4, -3>>}
BridgeNoNormal == 4

BridgeCall ==
    /\ phase = "constructed"
    /\ ev.bridge = << >>
    /\ \E px \in BridgeXs, py \in BridgeYs, d \in BridgeDirs :
           ev' = [ev EXCEPT !.bridge =
                      <<px, py, d[1], d[2], bridge_hit(px, py, d[1], d[2], BridgeNoNormal)>>]
    /\ UNCHANGED <<phase, config, num_collisions, gate_capacities, time, in_left, x_pos, directions,
                   impact_times, next_x_pos, next_directions, next_impact_times,
                   gate_arrays, gate_contents, sorted_indices, measuring_times,
                   total_left, reset_counter, last_written_time, results_file>>

BridgeInit ==
    /\ num_particles = 1
    /\ bridge_height = 6
    /\ left_gate_capacity = 1
    /\ right_gate_capacity = 1
    /\ explosion_direction_is_random = FALSE
    /\ gate_is_flat = FALSE
    /\ distance_as_channel_length = FALSE
    /\ dt = 0
    /\ Constructed

BridgeSpec == BridgeInit /\ [][BridgeCall]_vars

\* One more particle than Spec and a right gate one wider than the widest of
\* Spec, so that an explosion can find more than two residents.
ThrongInit ==
    /\ num_particles = N + 1
    /\ bridge_height = 6
    /\ left_gate_capacity = 0
    /\ right_gate_capacity = MaxCap + 1
    /\ explosion_direction_is_random = FALSE
    /\ gate_is_flat \in BOOLEAN
    /\ distance_as_channel_length = FALSE
    /\ dt = 0
    /\ Constructed

ThrongSpec == ThrongInit /\ [][Next]_vars

\* calls of the public get_current_position after setup, on a particle whose
\* public fields and the public time are set first: ev records
\* <<x_pos, next_x_pos, impact_time, next_impact_time, time, x returned>>
PositionCall ==
    /\ phase = "setup"
    /\ ev.position = << >>
    /\ \E px \in DrawXs, nx \in DrawXs :
       \E it \in 0 .. MaxCallTime, nit \in 0 .. MaxCallTime, t \in 0 .. MaxCallTime :
           ev' = [ev EXCEPT !.position =
                      <<px, nx, it, nit, t,
                        get_current_position(
                            [Fields EXCEPT !.x_pos[0] = px, !.next_x_pos[0] = nx,
                                           !.impact_times[0] = it,
                                           !.next_impact_times[0] = nit,
                                           !.time = t], 0)>>]
    /\ UNCHANGED <<phase, config, num_collisions, gate_capacities, time, in_left, x_pos, directions,
                   impact_times, next_x_pos, next_directions, next_impact_times,
                   gate_arrays, gate_contents, sorted_indices, measuring_times,
                   total_left, reset_counter, last_written_time, results_file>>

PositionNext == Setup \/ PositionCall

PositionInit ==
    /\ num_particles = 1
    /\ bridge_height = 6
    /\ left_gate_capacity = 1
    /\ right_gate_capacity = 1
    /\ explosion_direction_is_random = FALSE
    /\ gate_is_flat = FALSE
    /\ distance_as_channel_length = FALSE
    /\ dt = 0
    /\ Constructed

PositionSpec == PositionInit /\ [][PositionNext]_vars

\* calls of the public compute_next_impact after start, on a particle whose
\* public position and heading are set first, also to points on and beyond
\* the walls: ev records <<particle, x_pos, direction>> as they were set
PlanXs == (-box_x_radius - 1) .. (box_x_radius + 1)

PlanCall ==
    /\ phase = "started"
    /\ ev.plan = << >>
    /\ \E particle \in Particles, px \in PlanXs, direction \in DrawDirs :
       \E s \in compute_next_impact(
                    [Fields EXCEPT !.x_pos[particle] = px,
                                   !.directions[particle] = direction,
                                   !.ev = [ev EXCEPT !.draws = << >>,
                                                     !.plan = <<particle, px, direction>>]],
                    particle) :
           Store(s)
    /\ UNCHANGED <<phase, config, num_collisions, gate_capacities>>

PlanNext ==
    \/ Setup
    \/ \E ratio \in (-1) .. (RatioDen + 1) : Start(ratio)
    \/ PlanCall

PlanInit ==
    /\ num_particles = N
    /\ bridge_height = 6
    /\ left_gate_capacity = 1
    /\ right_gate_capacity = 1
    /\ explosion_direction_is_random = FALSE
    /\ gate_is_flat \in BOOLEAN
    /\ distance_as_channel_length \in BOOLEAN
    /\ dt = 0
    /\ Constructed

PlanSpec == PlanInit /\ [][PlanNext]_vars

\* ---------------------------------------------------------------- claims
\* "started" is the phase after start and after every update: the event
\* boundaries at which the driver sees the simulation.

\* C1: after start and at the end of every update each side's gate_contents
\* holds at most that side's capacity, and with capacity 0 an admission attempt
\* explodes the gate.
C1_GateWithinCapacity ==
    phase = "started" =>
        \A d \in Sides :
            /\ Len(gate_contents[d]) <= gate_capacities[d]
            /\ (gate_capacities[d] = 0 /\ ev.branch[d] = "admission") => ev.exploded[d]

\* a gate of capacity 2 that is still full after an update exploded it
C1_Witness ==
    /\ phase = "started"
    /\ \E d \in Sides : /\ ev.exploded[d]
                        /\ gate_capacities[d] = 2
                        /\ Len(gate_contents[d]) = 2

\* C2: after start and after every update sorted_indices holds every particle
\* index exactly once, in order of non-decreasing next_impact_time.
C2_SortedIndicesValid ==
    phase = "started" =>
        /\ Len(sorted_indices) = num_particles
        /\ Range(sorted_indices) = Particles
        /\ \A k \in 1 .. (Len(sorted_indices) - 1) :
               next_impact_times[sorted_indices[k]]
                   <= next_impact_times[sorted_indices[k + 1]]

\* C3: when an update begins, the front of sorted_indices has the smallest
\* next_impact_time of all particles.
C3_HeadIsMinimum ==
    phase = "started" =>
        \A p \in Particles :
            next_impact_times[Head(sorted_indices)] <= next_impact_times[p]

\* C4: the simulation time never decreases from one update to the next.
C4_TimeNonDecreasing == [][time' >= time]_vars

\* C5: after start and after every update no particle's planned event lies
\* before the current time.
C5_NextImpactNotBeforeTime ==
    phase = "started" => \A p \in Particles : next_impact_times[p] >= time

\* C6: at every event boundary a particle's gate flag for a side is 1 exactly
\* when the particle is in that side's gate_contents.
C6_FlagIffMember ==
    phase = "started" =>
        \A d \in Sides, p \in Particles :
            (gate_arrays[d][p] = 1) <=> (p \in Range(gate_contents[d]))

\* C7: after start and after every update in_left is the number of particles
\* whose committed position has x < 0.
C7_InLeftCountsLeft ==
    phase = "started" => in_left = Cardinality({p \in Particles : x_pos[p] < 0})

\* C8: an update whose particle i is inside gate d heading for the mid-line
\* appends i to gate_contents[d] and sets its flag without an explosion when i
\* is not a member and there is room, explodes side d with i as trigger when i
\* is not a member and there is no room, and leaves gate_contents[d] and the
\* flags of side d alone when i is a member.
C8_Admission ==
    [][\A d \in Sides :
          LET i == ev'.particle
          IN  ev'.branch[d] = "admission" =>
                IF i \notin Range(gate_contents[d])
                THEN IF Len(gate_contents[d]) < gate_capacities[d]
                     THEN /\ gate_contents'[d] = Append(gate_contents[d], i)
                          /\ gate_arrays'[d][i] = 1
                          /\ ~ ev'.exploded[d]
                     ELSE ev'.exploded[d] /\ ev'.trigger[d] = i
                ELSE /\ gate_contents'[d] = gate_contents[d]
                     /\ gate_arrays'[d] = gate_arrays[d]]_vars

\* C9: an update whose particle i is not (inside gate d and heading for the
\* mid-line) removes i from gate_contents[d] and clears its flag when i is a
\* member, removing no one else, and leaves gate_contents[d] and the flags of
\* side d alone when i is not a member.
C9_Departure ==
    [][\A d \in Sides :
          LET i == ev'.particle
          IN  ev'.branch[d] = "departure" =>
                IF i \in Range(gate_contents[d])
                THEN /\ gate_contents'[d] = EraseRemove(gate_contents[d], i)
                     /\ gate_arrays'[d][i] = 0
                ELSE /\ gate_contents'[d] = gate_contents[d]
                     /\ gate_arrays'[d] = gate_arrays[d]]_vars

\* C10: the particle that triggers an explosion of side d is not admitted by
\* that update: afterwards it is not in gate_contents[d], its flag for d is 0,
\* and gate_contents[d] is no longer than before.
C10_TriggerNotAdmitted ==
    [][\A d \in Sides :
          ev'.exploded[d] =>
              LET i == ev'.trigger[d]
              IN  /\ i \notin Range(gate_contents'[d])
                  /\ gate_arrays'[d][i] = 0
                  /\ Len(gate_contents'[d]) <= Len(gate_contents[d])]_vars

\* an update whose particle exploded a gate with a resident that stays in it
C10_Witness ==
    /\ phase = "started"
    /\ \E d \in Sides : /\ ev.exploded[d]
                        /\ ev.trigger[d] = ev.particle
                        /\ Len(ev.seen) >= 1
                        /\ Len(gate_contents[d]) >= 1

\* C12: when the planned position of the processed particle is outside the
\* domain at commit time, update commits the centre of the reservoir on the
\* side of the planned position: sign(next_x) * (D/2 + R).
C12_RepairSameSide ==
    [][ev'.repaired =>
           x_pos'[ev'.particle] =
               sgn(next_x_pos[ev'.particle]) * ((circle_distance \div 2) + circle_radius)]_vars

\* C13: a particle that is not where reindex_particle expects it stops the run
\* with a fatal error; while the run goes on, no particle has been dropped from
\* sorted_indices and none is listed twice.
C13_NoSilentLoss ==
    phase = "started" =>
        \A p \in Particles :
            Cardinality({k \in 1 .. Len(sorted_indices) : sorted_indices[k] = p}) = 1

\* C14: start fails, with no particle positioned, scheduled or measured,
\* exactly when bridge_height >= 2*circle_radius, or left_ratio is outside
\* [0, 1], or distance_as_channel_length is set while gate_is_flat is not.
C14_StartFailsFast ==
    [][(phase = "setup" /\ phase' /= "setup") =>
          LET refused == \/ bridge_height >= 2 * circle_radius
                         \/ ev'.left_ratio < 0
                         \/ ev'.left_ratio > RatioDen
                         \/ distance_as_channel_length /\ ~ gate_is_flat
          IN  /\ (phase' = "failed") <=> refused
              /\ (phase' = "failed") =>
                     /\ x_pos' = x_pos
                     /\ directions' = directions
                     /\ next_x_pos' = next_x_pos
                     /\ next_impact_times' = next_impact_times
                     /\ sorted_indices' = sorted_indices
                     /\ measuring_times' = << >>
                     /\ total_left' = << >>]_vars

\* a start refused for the height of the bridge alone
C14_Witness ==
    /\ phase = "failed"
    /\ bridge_height >= 2 * circle_radius
    /\ ev.left_ratio \in 0 .. RatioDen
    /\ ~ distance_as_channel_length
    /\ measuring_times = << >>

\* C15: with the same parameters and the same random draws a run is
\* determined: from any state reached, the start or update that consumes a
\* given sequence of draws has one outcome (same particle processed, same
\* time and in_left appended).
C15_Deterministic ==
    /\ phase = "started" =>
           \A s1, s2 \in update(Fields) : s1.ev.draws = s2.ev.draws => s1 = s2
    /\ (/\ phase = "setup"
        /\ bridge_height < 2 * circle_radius
        /\ ~ (distance_as_channel_length /\ ~ gate_is_flat)) =>
           \A ratio \in 0 .. RatioDen :
               \A s1, s2 \in StartParticles([Fields EXCEPT !.time = 0, !.in_left = 0],
                                            0, (ratio * num_particles) \div RatioDen) :
                   s1.ev.draws = s2.ev.draws => s1 = s2

\* C16: after start and after every update, of two particles with equal
\* next_impact_time the one with the smaller index comes first in
\* sorted_indices.
C16_TiesByIndex ==
    phase = "started" =>
        \A k, j \in 1 .. Len(sorted_indices) :
            (/\ k < j
             /\ next_impact_times[sorted_indices[k]] = next_impact_times[sorted_indices[j]])
                => sorted_indices[k] < sorted_indices[j]

\* C17: gate_contents[d] is in order of admission: two particles that are
\* members before and after an update keep their relative order, also when
\* the update explodes side d, and a particle admitted by the update is last.
C17_AdmissionOrder ==
    [][\A d \in Sides :
          phase = "started" =>
          LET old == gate_contents[d]
              new == gate_contents'[d]
          IN  /\ \A k, j \in 1 .. Len(old) :
                     (k < j /\ old[k] \in Range(new) /\ old[j] \in Range(new))
                         => \E a, b \in 1 .. Len(new) :
                                a < b /\ new[a] = old[k] /\ new[b] = old[j]
              /\ \A a \in 1 .. Len(new) :
                     new[a] \notin Range(old) => a = Len(new)]_vars

\* an explosion that visited two residents and left both in the gate
C17_Witness ==
    /\ phase = "started"
    /\ \E d \in Sides : /\ ev.exploded[d]
                        /\ ev.size_before[d] = 2
                        /\ Len(ev.seen) >= 2
                        /\ Len(gate_contents[d]) = 2

\* C18: start and every update append exactly one measurement, the current
\* time and in_left, and leave the earlier entries alone; this also holds for
\* updates with an explosion, a safety repair or a reset.  (By induction the
\* two series have length k + 1 after start and k updates.)
C18_OneMeasurementPerEvent ==
    [][(phase' = "started" /\ ~ Stray) =>
          /\ measuring_times' = Append(measuring_times, time')
          /\ total_left' = Append(total_left, in_left')]_vars

\* an update that repaired a stray plan, measured
C18_Witness ==
    /\ phase = "started"
    /\ ev.repaired
    /\ Len(measuring_times) >= 2
    /\ measuring_times[Len(measuring_times)] = time
    /\ total_left[Len(total_left)] = in_left

\* C19: after a successful start(left_ratio) the time is 0, the particles below
\* floor(left_ratio * N) are in the left reservoir circle and the others in the
\* right one, no particle is in a gate or in the bridge, both gates are empty,
\* and in_left = total_left[0] = floor(left_ratio * N).
C19_StartState ==
    [][(phase = "setup" /\ phase' = "started") =>
          LET num_left == (ev'.left_ratio * num_particles) \div RatioDen
          IN  /\ time' = 0
              /\ \A p \in Particles :
                     /\ is_in_circle(x_pos'[p], 0, IF p < num_left THEN LEFT ELSE RIGHT)
                     /\ ~ is_in_bridge(x_pos'[p], 0)
                     /\ \A d \in Sides : ~ is_in_gate(x_pos'[p], 0, d)
              /\ \A d \in Sides : gate_contents'[d] = << >>
              /\ in_left' = num_left
              /\ total_left' = <<num_left>>]_vars

\* a start with left_ratio = 1: every particle counted on the left
C19_Witness ==
    /\ phase = "started"
    /\ Len(measuring_times) = 1
    /\ ev.left_ratio = RatioDen
    /\ total_left[1] = num_particles
    /\ \A p \in Particles : x_pos[p] < 0

\* C20: reflection is an involution modulo a full turn: the reflected angle is
\* congruent to 2n - a + pi, and reflecting it again about the same normal gives
\* an angle congruent to a.
C20_ReflectionInvolution ==
    Len(ev.reflection) >= 3 =>
        LET a  == ev.reflection[1]
            n  == ev.reflection[2]
            r1 == ev.reflection[3]
        IN  /\ (r1 - (2 * n - a + AngleTicks)) % (2 * AngleTicks) = 0
            /\ Len(ev.reflection) = 4 =>
                   (ev.reflection[4] - a) % (2 * AngleTicks) = 0

\* a double reflection off an oblique normal that returns the incoming angle
\* one full turn away
C20_Witness ==
    /\ Len(ev.reflection) = 4
    /\ ev.reflection[2] % AngleTicks /= 0
    /\ ev.reflection[4] /= ev.reflection[1]
    /\ ev.reflection[3] /= ev.reflection[1]

\* C21: the plan of every particle is the earliest of the five candidates seen
\* from its committed position and heading: next_impact_time is impact_time
\* plus the smallest candidate (plus at most the EPS bias), next_x_pos is x_pos
\* advanced by that travel along the heading, and next_direction is the
\* reflection about the winning surface's normal when a rail or an arc is
\* strictly first and the heading itself when the gate or the mid-line is
\* strictly first.
C21_Candidates(p) ==
    [bridge |-> time_to_hit_bridge(Fields, p, 0),
     left   |-> time_to_hit_circle(Fields, p, left_center_x, 0),
     right  |-> time_to_hit_circle(Fields, p, right_center_x, 0),
     gate   |-> time_to_hit_gate(Fields, p),
     middle |-> time_to_hit_middle(Fields, p)]

C21_Min(set) == CHOOSE m \in set : \A t \in set : m <= t

C21_PlansEarliestCandidate ==
    phase = "started" =>
        \A p \in Particles :
            LET c == C21_Candidates(p)
                reflecting == {c.bridge, c.left, c.right}
                solid == C21_Min({c.bridge.t, c.left.t, c.right.t})
                open == C21_Min({c.gate, c.middle})
                travel == next_impact_times[p] - impact_times[p]
            IN  /\ travel \in {C21_Min({solid, open}), C21_Min({solid, open}) + EPS}
                /\ next_x_pos[p] = x_pos[p] + travel * Cos(directions[p])
                /\ solid < open =>
                       \E hit \in reflecting :
                           /\ hit.t = solid
                           /\ next_directions[p] = get_reflection_angle(directions[p], hit.normal)
                /\ open < solid => next_directions[p] = directions[p]

\* both kinds of winner planned at once: one particle reflects off an arc
\* next, another passes a gate or the mid-line next
C21_Witness ==
    /\ phase = "started"
    /\ time > 0
    /\ \E p, q \in Particles :
           /\ C21_Min({C21_Candidates(p).left.t, C21_Candidates(p).right.t})
                  < C21_Min({C21_Candidates(p).gate, C21_Candidates(p).middle})
           /\ C21_Min({C21_Candidates(q).gate, C21_Candidates(q).middle})
                  < C21_Min({C21_Candidates(q).left.t, C21_Candidates(q).right.t})
           /\ next_directions[q] = directions[q]
           /\ next_directions[p] /= directions[p]

\* C22: without random explosion directions get_retraction_angle returns the
\* heading plus pi exactly when the particle heads for the opposite side
\* (cos(dir) * x < 0) and the heading itself otherwise, so the result never
\* heads for the opposite side and a second retraction changes nothing; with
\* random explosion directions the result points away from the mid-line.
C22_RetractionAngle ==
    Len(ev.retraction) >= 3 =>
        LET x   == ev.retraction[1]
            dir == ev.retraction[2]
            r1  == ev.retraction[3]
        IN  IF explosion_direction_is_random
            THEN /\ x > 0 => CosSign(AngleTicks, r1) >= 0
                 /\ x < 0 => CosSign(AngleTicks, r1) <= 0
            ELSE /\ r1 = IF CosSign(AngleTicks, dir) * x < 0 THEN dir + AngleTicks ELSE dir
                 /\ ~ (CosSign(AngleTicks, r1) * x < 0)
                 /\ Len(ev.retraction) = 4 => ev.retraction[4] = r1

\* a particle on the right heading obliquely for the left side is turned
\* round, and the second retraction keeps the turned heading
C22_Witness ==
    /\ ~ explosion_direction_is_random
    /\ Len(ev.retraction) = 4
    /\ ev.retraction[1] > 0
    /\ CosSign(AngleTicks, ev.retraction[2]) < 0
    /\ ev.retraction[2] % AngleTicks /= 0
    /\ ev.retraction[3] = ev.retraction[2] + AngleTicks
    /\ ev.retraction[4] = ev.retraction[3]

\* C23: one particle alone with gates of capacity 1: at every event boundary
\* it is a member of gate_contents[d] exactly while it is inside gate d heading
\* for the mid-line, so a particle crossing from left to right is in the left
\* gate from its entry to the crossing of the mid-line, never in the right gate
\* while it heads away from the mid-line, and both gates are empty once it is
\* in the right reservoir; an event inside the bridge (gate, mid-line) leaves
\* its direction unchanged.
C23_SoloCrossing ==
    [][phase' = "started" =>
          /\ \A d \in Sides :
                 /\ Len(gate_contents'[d]) <= 1
                 /\ (0 \in Range(gate_contents'[d]))
                        <=> (/\ is_in_gate(x_pos'[0], 0, d)
                             /\ x_pos'[0] * Cos(directions'[0]) <= 0)
          /\ (phase = "started" /\ is_in_bridge(x_pos'[0], 0)) =>
                 directions'[0] = directions[0]]_vars

\* the particle started on the left has crossed and has just left the right
\* gate, still heading right, both gates empty
C23_Witness ==
    /\ phase = "started"
    /\ num_particles = 1
    /\ total_left[1] = 1
    /\ in_left = 0
    /\ is_in_circle(x_pos[0], 0, RIGHT)
    /\ x_pos[0] < right_center_x
    /\ Cos(directions[0]) = 1
    /\ reset_counter = 0
    /\ \A d \in Sides : gate_contents[d] = << >>

\* C24: time_to_hit_bridge returns the distance (less the EPS bias) to the
\* nearest rail the ray crosses within the rail segment at a strictly positive
\* distance, with normal -pi/2 for the top rail and +pi/2 for the bottom rail,
\* and max_path when the ray is parallel to the rails or misses both; from a
\* point on a rail the same rail is not hit, the opposite one is.
C24_Crossing(q_y, px, py, cx, cy) ==
    /\ cy /= 0
    /\ (q_y - py) * cy > 0
    /\ 2 * Abs(px + ((q_y - py) * cx) \div cy) <= bridge_length

C24_Distance(q_y, py, cy) == (DirDen * (q_y - py)) \div cy

C24_BridgeHit ==
    ev.bridge /= << >> =>
        LET px == ev.bridge[1]
            py == ev.bridge[2]
            cx == ev.bridge[3]
            cy == ev.bridge[4]
            hit == ev.bridge[5]
            top == bridge_height \div 2
            bottom == -(bridge_height \div 2)
            rails == {q_y \in {top, bottom} : C24_Crossing(q_y, px, py, cx, cy)}
        IN  IF rails = {}
            THEN hit = [t |-> max_path, normal |-> BridgeNoNormal]
            ELSE \E q_y \in rails :
                     /\ \A other \in rails :
                            C24_Distance(q_y, py, cy) <= C24_Distance(other, py, cy)
                     /\ hit.t = C24_Distance(q_y, py, cy) - EPS
                     /\ hit.normal = IF q_y = top THEN -1 ELSE 1

\* a particle on the top rail over the bridge heading straight down: the top
\* rail is not hit, the bottom rail is, a bridge height away
C24_Witness ==
    /\ ev.bridge /= << >>
    /\ ev.bridge[2] = bridge_height \div 2
    /\ 2 * Abs(ev.bridge[1]) < bridge_length
    /\ ev.bridge[3] = 0
    /\ ev.bridge[4] < 0
    /\ ev.bridge[5] = [t |-> bridge_height - EPS, normal |-> 1]

\* The residents of an explosion, seen from the step of the update: side d
\* explodes in the step, p was a member of gate_contents[d] before it and is
\* not the processed particle; its interpolated current position is taken at
\* the time the step commits, from the fields it had before the step.
ExplosionResident(d, p) ==
    /\ phase = "started"
    /\ ev'.exploded[d]
    /\ p \in Range(gate_contents[d])
    /\ p /= ev'.particle

ResidentX(p) == get_current_position([Fields EXCEPT !.time = time'], p)

\* the fields of particle p that an explosion can write
ParticleFields(p) ==
    <<x_pos[p], directions[p], impact_times[p],
      next_x_pos[p], next_directions[p], next_impact_times[p]>>

\* C25: an explosion skips a resident whose interpolated current position is
\* outside the domain: its position, direction, impact_time and planned next
\* event are unchanged and it stays a member of the gate.
C25_OutsideResidentSkipped ==
    [][\A d \in Sides, p \in Particles :
          (ExplosionResident(d, p) /\ ~ is_in_domain(ResidentX(p), 0)) =>
              /\ ParticleFields(p)' = ParticleFields(p)
              /\ p \in Range(gate_contents'[d])]_vars

\* C26: an explosion of side d only removes a resident whose interpolated
\* current position is in the domain but no longer inside gate d: the resident
\* leaves gate_contents[d] and is not retracted, its position, direction,
\* impact_time and planned next event are unchanged.
C26_DepartedResidentOnlyRemoved ==
    [][\A d \in Sides, p \in Particles :
          (/\ ExplosionResident(d, p)
           /\ is_in_domain(ResidentX(p), 0)
           /\ ~ is_in_gate(ResidentX(p), 0, d)) =>
              /\ p \notin Range(gate_contents'[d])
              /\ ParticleFields(p)' = ParticleFields(p)]_vars

\* C27: every resident of an exploding side d whose interpolated current
\* position is inside gate d is repinned there, gets its retraction angle as
\* direction and the current time as impact_time, is planned afresh from that
\* position and re-inserted in the scheduler at the place of its new
\* next_impact_time; it remains a member of gate_contents[d] with its flag set.
C27_ResidentRetracted ==
    [][\A d \in Sides, p \in Particles :
          (/\ ExplosionResident(d, p)
           /\ phase' = "started"
           /\ is_in_domain(ResidentX(p), 0)
           /\ is_in_gate(ResidentX(p), 0, d)) =>
              /\ x_pos'[p] = ResidentX(p)
              /\ directions'[p] =
                     get_retraction_angle([Fields EXCEPT !.x_pos[p] = ResidentX(p)], p)
              /\ impact_times'[p] = time'
              /\ next_impact_times'[p] > time'
              /\ next_x_pos'[p] = x_pos'[p]
                     + (next_impact_times'[p] - time') * Cos(directions'[p])
              /\ p \in Range(gate_contents'[d])
              /\ gate_arrays'[d][p] = 1
              /\ \E k \in 1 .. Len(sorted_indices') :
                     /\ sorted_indices'[k] = p
                     /\ \A j \in 1 .. Len(sorted_indices') :
                            /\ j < k => next_impact_times'[sorted_indices'[j]]
                                            <= next_impact_times'[p]
                            /\ j > k => next_impact_times'[sorted_indices'[j]]
                                            >= next_impact_times'[p]]_vars

\* C28: an explosion of side d examines every particle that was a member of
\* gate_contents[d] when it began exactly once, also when residents are
\* removed from gate_contents[d] during the pass.
C28_EveryResidentOnce ==
    [][\A d \in Sides :
          (/\ phase = "started"
           /\ phase' = "started"
           /\ ev'.exploded[d]
           /\ ~ ev'.exploded[1 - d]) =>
              \A p \in Particles :
                  Cardinality({k \in 1 .. Len(ev'.seen) : ev'.seen[k] = p})
                      = IF p \in Range(gate_contents[d]) THEN 1 ELSE 0]_vars

Touched ==
    {ev'.particle} \cup UNION {IF ev'.exploded[d] THEN Range(gate_contents[d]) ELSE {} :
                                   d \in Sides}

C30_FrameOfUpdate ==
    [][(phase = "started" /\ phase' = "started" /\ ~ Stray) =>
          /\ \A p \in Particles \ Touched : ParticleFields(p)' = ParticleFields(p)
          /\ SelectSeq(sorted_indices', LAMBDA q : q \notin Touched)
                 = SelectSeq(sorted_indices, LAMBDA q : q \notin Touched)
          /\ \A d \in Sides :
                 ev'.exploded[d] =>
                     /\ gate_contents'[1 - d] = EraseRemove(gate_contents[1 - d], ev'.particle)
                     /\ \A p \in Particles \ {ev'.particle} :
                            gate_arrays'[1 - d][p] = gate_arrays[1 - d][p]]_vars

\* an explosion with a resident, in a run where an untouched third particle
\* kept its fields
C30_Witness ==
    /\ phase = "started"
    /\ \E d \in Sides :
           /\ ev.exploded[d]
           /\ Len(ev.seen) >= 1
           /\ \E p \in Particles : p /= ev.particle /\ p \notin Range(ev.seen)
                                   /\ impact_times[p] < time

\* C31: an update with write_dt > 0 appends to results.dat the snapshots at the
\* times last_written_time + k*write_dt (k = 1, 2, ...) that are strictly
\* smaller than the event time, in increasing order and interpolated from the
\* state before the event is committed, and afterwards the event time less
\* write_dt <= last_written_time <= the event time; with write_dt = 0 nothing
\* is appended and last_written_time is unchanged.
SlicesWritten == SubSeq(results_file', Len(results_file) + 1, Len(results_file'))

C31_SnapshotTimes ==
    [][phase = "started" =>
          LET event_time == next_impact_times[Head(sorted_indices)]
          IN  /\ Len(results_file') >= Len(results_file)
              /\ SubSeq(results_file', 1, Len(results_file)) = results_file
              /\ IF dt > 0
                 THEN /\ \A k \in 1 .. Len(SlicesWritten) :
                            /\ SlicesWritten[k].time = last_written_time + k * dt
                            /\ SlicesWritten[k].time < event_time
                            /\ \A p \in Particles :
                                   SlicesWritten[k].x[p]
                                       = SnapshotX(Fields, p, SlicesWritten[k].time)
                      /\ last_written_time + (Len(SlicesWritten) + 1) * dt >= event_time
                      /\ last_written_time' = last_written_time + Len(SlicesWritten) * dt
                      /\ event_time - dt <= last_written_time'
                      /\ last_written_time' <= event_time
                 ELSE /\ SlicesWritten = << >>
                      /\ last_written_time' = last_written_time]_vars

\* C32: get_current_position interpolates linearly between the last and the
\* planned event of the particle: it returns x_pos at time = impact_time,
\* next_x_pos at time = next_impact_time, the midpoint at the midpoint time,
\* and x_pos (no division by zero) when the two event times are equal.
C32_CurrentPosition ==
    ev.position /= << >> =>
        LET px  == ev.position[1]
            nx  == ev.position[2]
            it  == ev.position[3]
            nit == ev.position[4]
            t   == ev.position[5]
            x   == ev.position[6]
        IN  /\ t = it => x = px
            /\ (t = nit /\ it /= nit) => x = nx
            /\ (2 * t = it + nit /\ it /= nit /\ (px + nx) % 2 = 0) => 2 * x = px + nx
            /\ it = nit => x = px

\* a call at the midpoint time of a move between two different points
C32_Witness ==
    /\ ev.position /= << >>
    /\ ev.position[1] /= ev.position[2]
    /\ ev.position[3] < ev.position[4]
    /\ 2 * ev.position[5] = ev.position[3] + ev.position[4]
    /\ 2 * ev.position[6] = ev.position[1] + ev.position[2]

\* C33: when compute_next_impact(i) finds no event within max_path it resets
\* particle i alone: i is placed in the reservoir circle of the side it was
\* on, outside the gate and the bridge, reset_counter goes up by one and no
\* other particle, gate or scheduler entry changes; and whenever
\* compute_next_impact returns, the planned event of i is a real one, less
\* than max_path away.
C33_ResetOnNoEvent ==
    [][(ev.plan = << >> /\ ev'.plan /= << >>) =>
          LET i == ev'.plan[1]
              px == ev'.plan[2]
              no_event == NextEvent([Fields EXCEPT !.x_pos[i] = px,
                                                   !.directions[i] = ev'.plan[3]], i).t
                              = max_path
          IN  /\ next_impact_times'[i] - time' < max_path
              /\ next_impact_times'[i] > time'
              /\ \A q \in Particles \ {i} : ParticleFields(q)' = ParticleFields(q)
              /\ gate_contents' = gate_contents
              /\ gate_arrays' = gate_arrays
              /\ sorted_indices' = sorted_indices
              /\ in_left' = in_left /\ time' = time
              /\ IF no_event
                 THEN /\ reset_counter' = reset_counter + 1
                      /\ px > 0 => is_in_circle(x_pos'[i], 0, RIGHT) /\ x_pos'[i] > 0
                      /\ px < 0 => is_in_circle(x_pos'[i], 0, LEFT) /\ x_pos'[i] < 0
                      /\ ~ is_in_bridge(x_pos'[i], 0)
                      /\ \A d \in Sides : ~ is_in_gate(x_pos'[i], 0, d)
                 ELSE /\ reset_counter' = reset_counter
                      /\ x_pos'[i] = px]_vars

\* a particle inside the right reservoir one tick from the wall and heading
\* for it found no event and was reset into the right reservoir
C33_Witness ==
    /\ ev.plan /= << >>
    /\ ev.plan[2] = right_center_x + circle_radius - EPS
    /\ Cos(ev.plan[3]) = 1
    /\ Len(ev.draws) = 1
    /\ reset_counter >= 1
    /\ x_pos[ev.plan[1]] /= ev.plan[2]

\* C34: the batch driver keeps to the lifecycle setup, start, update, finish:
\* once start has failed with a configuration error no update is called on
\* that simulation, so it processes no event and records no measurement.
C34_NoUpdateAfterFailedStart ==
    phase = "failed" =>
        /\ ev.particle = -1
        /\ measuring_times = << >>
        /\ time = 0

\* C35: under repeated updates every particle is processed again and again,
\* and none is dropped from the scheduler.  In the form a finite run refutes:
\* at every event boundary every particle is still due to be processed, that
\* is, listed in sorted_indices or at least resident in a gate, whose explosion
\* would list it again.  (update processes the front of sorted_indices and
\* inserts only the processed particle and the residents of an exploding gate,
\* so a particle that is neither listed nor resident is processed by no later
\* update.)
C35_EveryParticleStaysDue ==
    phase = "started" =>
        \A p \in Particles :
            \/ p \in Range(sorted_indices)
            \/ \E d \in Sides : p \in Range(gate_contents[d])

\* C36: at every event boundary 0 <= in_left <= N: the unsigned counter is
\* never decremented at 0 (it would wrap round) and never incremented at N, so
\* in_left and every recorded total_left, and with them N - total_left, lie in
\* [0, N].
C36_InLeftInRange ==
    phase = "started" =>
        /\ in_left \in 0 .. num_particles
        /\ \A k \in 1 .. Len(total_left) : total_left[k] \in 0 .. num_particles

\* C37: at every event boundary no particle is a member of gate_contents[LEFT]
\* and of gate_contents[RIGHT] at the same time.
C37_NotInBothGates ==
    phase = "started" =>
        Range(gate_contents[LEFT]) \cap Range(gate_contents[RIGHT]) = {}

\* the processed particle has just been admitted to one gate while the other
\* gate holds another particle
C37_Witness ==
    /\ phase = "started"
    /\ \E d \in Sides :
           /\ ev.branch[d] = "admission"
           /\ ~ ev.member_before[d]
           /\ ev.particle \in Range(gate_contents[d])
           /\ gate_contents[1 - d] /= << >>
           /\ ev.particle \notin Range(gate_contents[1 - d])

\* C38: at every event boundary every member of gate_contents[d] has its
\* committed position inside gate d, also right after compute_next_impact has
\* reset it into a reservoir and right after an explosion.
C38_MembersInsideGate ==
    phase = "started" =>
        \A d \in Sides :
            \A i \in Range(gate_contents[d]) : is_in_gate(x_pos[i], 0, d)

\* C39: at every event boundary impact_time[i] <= time for every particle i:
\* the last event of a particle never lies after the current time, so its
\* position at the current time is never extrapolated backwards.
C39_LastEventNotAfterTime ==
    phase = "started" => \A i \in Particles : impact_times[i] <= time

\* C40: gate_contents[d] never holds the same particle index twice, after any
\* sequence of admissions, departures and explosions.
C40_NoDuplicateGateMember ==
    phase /= "constructed" =>
        \A d \in Sides :
            \A j, k \in 1 .. Len(gate_contents[d]) :
                gate_contents[d][j] = gate_contents[d][k] => j = k

\* an admission check of a particle that was already a member of a gate with
\* room left: the particle is not added a second time
C40_Witness ==
    \E d \in Sides :
        /\ phase = "started"
        /\ ev.branch[d] = "admission"
        /\ ev.member_before[d]
        /\ ev.size_before[d] < gate_capacities[d]
        /\ ev.particle \in Range(gate_contents[d])

====
